---- MODULE Spec2Model ----
(***************************************************************************)
(* Seen-set store and diff engine of the eBird rare bird alert monitor:    *)
(* EBirdFetcher (src/src/ebird_fetcher.py), the check cycle of             *)
(* src/src/monitor.py and the detection harness of src/test_detection.py.  *)
(***************************************************************************)
EXTENDS Integers, Sequences, FiniteSets, TLC

\* Observation ids are 1..MaxId.
MaxId == 2
\* Longest candidate list one fetch returns.
MaxPage == 2
\* Longest id list of a feed in a storage file that exists before the first run.
MaxStored == 1

\* Most observation cards on a page of several cards.
MaxCards == 3
\* Most children of the count container of a card.
MaxChildren == 2

Ids == 1..MaxId

RECURSIVE SeqsUpTo(_, _)
SeqsUpTo(S, n) ==
  IF n = 0 THEN {<<>>}
  ELSE LET shorter == SeqsUpTo(S, n - 1)
       IN shorter \cup {Append(s, x) : s \in {t \in shorter : Len(t) = n - 1}, x \in S}

\* The configured counties; alert_id is the key of the seen store.
COUNTIES ==
  << [name |-> "Portage", state |-> "Wisconsin", alert_id |-> "SN37222"],
     [name |-> "Dane", state |-> "Wisconsin", alert_id |-> "SN35559"] >>

FeedIds == {COUNTIES[k].alert_id : k \in 1..Len(COUNTIES)}

\* An observation dictionary as get_new_alerts reads it: only 'id' is consulted.
Alert(n) == [id |-> n]
Alerts == {Alert(n) : n \in Ids}
Pages == SeqsUpTo(Alerts, MaxPage)

RECURSIVE IdsOf(_)
IdsOf(alerts) ==
  IF alerts = <<>> THEN <<>> ELSE <<Head(alerts).id>> \o IdsOf(Tail(alerts))

(***************************************************************************)
(* Python values held in previous_alerts and in the storage file.          *)
(* A JSON document is a dict (feed id -> entry), or some other JSON value  *)
(* (an array such as [] ); an entry is a list of ids, or a number.         *)
(***************************************************************************)
ListEntry(s) == [t |-> "list", v |-> s]
NumEntry == [t |-> "num", v |-> <<>>]
EmptyMap == [k \in {} |-> NumEntry]
PyDict(m) == [t |-> "dict", m |-> m]
PyList == [t |-> "list", m |-> EmptyMap]
NoFetcher == [t |-> "none", m |-> EmptyMap]
EmptyDict == PyDict(EmptyMap)

\* A mapping from feed id to list of ids: what the docstring of
\* _load_previous_alerts promises.
WellFormed(p) ==
  /\ p.t = "dict"
  /\ \A k \in DOMAIN p.m : p.m[k].t = "list"

\* The ids recorded for feed k in p (none when there is no usable entry).
Stored(p, k) ==
  IF p.t = "dict" /\ k \in DOMAIN p.m /\ p.m[k].t = "list" THEN p.m[k].v ELSE <<>>

\* Python's `x in l` on a list.
InList(x, l) == \E j \in 1..Len(l) : l[j] = x

(***************************************************************************)
(* The storage file: missing, a complete JSON text, or a text that is cut  *)
(* short (open(.., 'w') truncated it and json.dump did not finish).        *)
(***************************************************************************)
MissingFile == [st |-> "missing", v |-> EmptyDict]
PartialFile == [st |-> "partial", v |-> EmptyDict]
\* json.dump of value p, written completely.
json_dump(p) == [st |-> "json", v |-> p]
\* json.load: the value of a complete text; a text cut short does not parse.
json_load(f) ==
  IF f.st = "json" THEN [raised |-> FALSE, v |-> f.v]
  ELSE [raised |-> TRUE, v |-> EmptyDict]

(***************************************************************************)
(* EBirdFetcher                                                            *)
(***************************************************************************)
\* Outcomes of the file write in _save_previous_alerts: it completes, open()
\* raises (permission: the file is left as it was), or json.dump raises after
\* open() truncated the file (disk full: a text cut short is left behind).
SaveOutcomes == {"ok", "open_fails", "write_fails"}

\* _load_previous_alerts: the value stored in previous_alerts, or an exception
\* that leaves __init__. makedirs_ok: os.makedirs of the file's directory works.
_load_previous_alerts(f, makedirs_ok) ==
  IF f.st # "missing"
  THEN LET r == json_load(f)
       IN IF r.raised THEN [raised |-> FALSE, v |-> EmptyDict]
          ELSE [raised |-> FALSE, v |-> r.v]
  ELSE IF makedirs_ok THEN [raised |-> FALSE, v |-> EmptyDict]
       ELSE [raised |-> TRUE, v |-> NoFetcher]

\* A write that leaves the file as it was.
_save_previous_alerts_keeps_file(p, f, io) == f

\* _save_previous_alerts: the file afterwards. Every exception is caught and
\* logged, so the call always returns normally.
_save_previous_alerts(p, f, io) ==
  CASE io = "ok" -> json_dump(p)
    [] io = "open_fails" -> f
    [] io = "write_fails" -> PartialFile

\* The entry of alert_id set to the empty list whether it exists or not.
WithEntry_resets(m, alert_id) ==
  [k \in DOMAIN m \cup {alert_id} |-> IF k # alert_id THEN m[k] ELSE ListEntry(<<>>)]

\* The entry of alert_id alone, the entries of the other feeds dropped.
WithEntry_alone(m, alert_id) ==
  [k \in {alert_id} |-> IF k \in DOMAIN m THEN m[k] ELSE ListEntry(<<>>)]

\* previous_alerts with an empty list created for alert_id (line 230).
WithEntry(m, alert_id) ==
  [k \in DOMAIN m \cup {alert_id} |-> IF k \in DOMAIN m THEN m[k] ELSE ListEntry(<<>>)]

\* The loop with the id appended for every candidate, new or not.
RECURSIVE FilterLoop_marks_all(_, _, _)
FilterLoop_marks_all(rest, seen, new) ==
  IF rest = <<>> THEN [seen |-> seen, new |-> new]
  ELSE LET alert == Head(rest)
       IN IF ~InList(alert.id, seen)
          THEN FilterLoop_marks_all(Tail(rest), Append(seen, alert.id), Append(new, alert))
          ELSE FilterLoop_marks_all(Tail(rest), Append(seen, alert.id), new)

\* The loop without the append of line 237.
RECURSIVE FilterLoop_no_mark(_, _, _)
FilterLoop_no_mark(rest, seen, new) ==
  IF rest = <<>> THEN [seen |-> seen, new |-> new]
  ELSE LET alert == Head(rest)
       IN IF ~InList(alert.id, seen)
          THEN FilterLoop_no_mark(Tail(rest), seen, Append(new, alert))
          ELSE FilterLoop_no_mark(Tail(rest), seen, new)

\* The loop with a record of unknown species taken as seen.
RECURSIVE FilterLoop_reads_species(_, _, _)
FilterLoop_reads_species(rest, seen, new) ==
  IF rest = <<>> THEN [seen |-> seen, new |-> new]
  ELSE LET alert == Head(rest)
           unknown == /\ "species" \in DOMAIN alert
                      /\ alert.species = <<"Unknown Species">>
       IN IF ~InList(alert.id, seen) /\ ~unknown
          THEN FilterLoop_reads_species(Tail(rest), Append(seen, alert.id), Append(new, alert))
          ELSE FilterLoop_reads_species(Tail(rest), seen, new)

\* The for loop of get_new_alerts (lines 233-237) over the remaining alerts.
RECURSIVE FilterLoop(_, _, _)
FilterLoop(rest, seen, new) ==
  IF rest = <<>> THEN [seen |-> seen, new |-> new]
  ELSE LET alert == Head(rest)
       IN IF ~InList(alert.id, seen)
          THEN FilterLoop(Tail(rest), Append(seen, alert.id), Append(new, alert))
          ELSE FilterLoop(Tail(rest), seen, new)

\* get_new_alerts on previous_alerts p and storage file f, with all_alerts the
\* list fetch_alerts returned and io the outcome of the write, if one is made.
\* saved: "none" (no write attempted), "ok" or "failed".
get_new_alerts(p, f, county, all_alerts, io) ==
  LET alert_id == county.alert_id
      Raised(q) == [raised |-> TRUE, previous_alerts |-> q, new_alerts |-> <<>>,
                    saved |-> "none", file |-> f]
  IN IF p.t # "dict" THEN Raised(p)
     ELSE LET m1 == WithEntry(p.m, alert_id)
          IN IF m1[alert_id].t # "list"
             THEN IF all_alerts = <<>>
                  THEN [raised |-> FALSE, previous_alerts |-> PyDict(m1),
                        new_alerts |-> <<>>, saved |-> "none", file |-> f]
                  ELSE Raised(PyDict(m1))
             ELSE LET r == FilterLoop(all_alerts, m1[alert_id].v, <<>>)
                      q == PyDict([m1 EXCEPT ![alert_id] = ListEntry(r.seen)])
                  IN IF r.new # <<>>
                     THEN [raised |-> FALSE, previous_alerts |-> q, new_alerts |-> r.new,
                           saved |-> IF io = "ok" THEN "ok" ELSE "failed",
                           file |-> _save_previous_alerts(q, f, io)]
                     ELSE [raised |-> FALSE, previous_alerts |-> q, new_alerts |-> <<>>,
                           saved |-> "none", file |-> f]

\* fetch_alerts as get_new_alerts sees it: the records of the page, or [] when
\* the request or the parse raised (lines 211-213).
fetch_alerts(page, fetch_ok) == IF fetch_ok THEN page ELSE <<>>

(***************************************************************************)
(* The page parser of fetch_alerts (lines 81-209).                         *)
(* A text is a sequence of tokens: words, the labels of the page and "ws"  *)
(* for white space; the empty string is the empty sequence. An element     *)
(* that a selector may or may not find carries the flag found.             *)
(***************************************************************************)
\* The id an observation gets from a card without usable id attribute: ''.
EmptyId == 0

RECURSIVE lstrip(_)
lstrip(t) == IF t # <<>> /\ Head(t) = "ws" THEN lstrip(Tail(t)) ELSE t

RECURSIVE rstrip(_)
rstrip(t) ==
  IF t # <<>> /\ t[Len(t)] = "ws" THEN rstrip(SubSeq(t, 1, Len(t) - 1)) ELSE t

\* str.strip()
strip(t) == rstrip(lstrip(t))

\* str.replace(label, '')
replace(t, label) == SelectSeq(t, LAMBDA x : x # label)

\* ' '.join(texts)
RECURSIVE join(_)
join(texts) ==
  IF texts = <<>> THEN <<>>
  ELSE IF Len(texts) = 1 THEN texts[1]
  ELSE texts[1] \o <<"ws">> \o join(Tail(texts))

\* The text of an element: the texts of its children, in order.
RECURSIVE text_of(_)
text_of(children) ==
  IF children = <<>> THEN <<>> ELSE Head(children).text \o text_of(Tail(children))

\* The texts, stripped, of the span children that are not visually hidden
\* (lines 125-129).
RECURSIVE non_hidden_spans(_)
non_hidden_spans(children) ==
  IF children = <<>> THEN <<>>
  ELSE LET n == Head(children)
       IN (IF n.tag = "span" /\ ~n.hidden THEN <<strip(n.text)>> ELSE <<>>)
            \o non_hidden_spans(Tail(children))

\* re.search(r'Number observed:\s*(.+)', t): the group of the first match.
RECURSIVE count_match(_)
count_match(t) ==
  IF t = <<>> THEN [found |-> FALSE, group |-> <<>>]
  ELSE IF Head(t) = "Number observed:" /\ lstrip(Tail(t)) # <<>>
  THEN [found |-> TRUE, group |-> lstrip(Tail(t))]
  ELSE count_match(Tail(t))

\* The count of a card (lines 121-143).
extract_count(count_container) ==
  IF ~count_container.found THEN <<"Unknown">>
  ELSE LET spans == non_hidden_spans(count_container.children)
           all_text == strip(text_of(count_container.children))
           m == count_match(all_text)
           count == IF spans # <<>> THEN join(spans)
                    ELSE IF m.found THEN strip(m.group)
                    ELSE <<"Unknown">>
       IN strip(replace(count, "Number observed:"))

\* The location of a card (lines 149-151).
extract_location(loc_elem) ==
  IF loc_elem.found THEN strip(loc_elem.text) ELSE <<"Unknown Location">>

\* The date of a card (lines 145-147).
extract_date(date_elem) ==
  IF date_elem.found THEN strip(date_elem.text) ELSE <<"Unknown Date">>

\* The checklist URL of a card (lines 89-106): the checklist named by the href
\* of the date link, or the observation id when there is no such link.
extract_checklist(date_link, obs_id) ==
  IF date_link.found THEN [checklist |-> date_link.href, obs |-> EmptyId]
  ELSE [checklist |-> "", obs |-> obs_id]

\* Species and scientific name of a card (lines 108-119).
extract_species(species_elem) ==
  IF species_elem.found
  THEN [species |-> IF species_elem.main.found THEN strip(species_elem.main.text)
                    ELSE <<>>,
        scientificName |-> IF species_elem.sub.found THEN strip(species_elem.sub.text)
                           ELSE <<>>]
  ELSE [species |-> <<"Unknown Species">>, scientificName |-> <<>>]

\* The observation id of a card (line 87): the id attribute without its
\* prefix 'obs-OBS', '' when the attribute is missing or is the prefix alone.
extract_id(id_attr) == IF id_attr.found THEN id_attr.n ELSE EmptyId

NoTag == [found |-> FALSE, name |-> "", class |-> {}]

\* The ancestors of the .Icon--user element of a card, the closest first.
IconAncestors ==
  << [found |-> TRUE, name |-> "div", class |-> {"GridFlex-cell"}],
     [found |-> TRUE, name |-> "div", class |-> {"GridFlex", "GridFlex--flex"}],
     [found |-> TRUE, name |-> "div", class |-> {"Observation"}] >>

\* BeautifulSoup's find_parent(name): the closest ancestor whose tag name is
\* name. The argument is compared with tag names, not read as a selector.
RECURSIVE find_parent(_, _)
find_parent(ancestors, name) ==
  IF ancestors = <<>> THEN NoTag
  ELSE IF Head(ancestors).name = name THEN Head(ancestors)
  ELSE find_parent(Tail(ancestors), name)

\* The ancestors of the closest ancestor named name.
RECURSIVE above(_, _)
above(ancestors, name) ==
  IF ancestors = <<>> THEN <<>>
  ELSE IF Head(ancestors).name = name THEN Tail(ancestors)
  ELSE above(Tail(ancestors), name)

\* The spans of the observer block of a card, in document order: the label
\* span, if there is one, and the span that follows it, if there is one.
observer_spans(ob) ==
  (IF ob.label # "none" THEN <<[text |-> <<"Observer:">>, hidden |-> ob.label = "hidden"]>>
   ELSE <<>>)
  \o (IF ob.name.found THEN <<[text |-> ob.name.text, hidden |-> FALSE]>> ELSE <<>>)

\* card.find_all('span', class_='is-visuallyHidden') with the sibling span
\* that follows each: the hidden spans of the count container, then the
\* hidden label of the observer block.
RECURSIVE hidden_of_count(_)
hidden_of_count(children) ==
  IF children = <<>> THEN <<>>
  ELSE (IF Head(children).tag = "span" /\ Head(children).hidden
        THEN <<[text |-> Head(children).text,
                next_span |-> [found |-> FALSE, text |-> <<>>]]>>
        ELSE <<>>) \o hidden_of_count(Tail(children))

observer_labels(card) ==
  (IF card.count.found THEN hidden_of_count(card.count.children) ELSE <<>>)
  \o (IF card.observer.label = "hidden"
      THEN <<[text |-> <<"Observer:">>, next_span |-> card.observer.name]>>
      ELSE <<>>)

\* The loop of lines 157-164 over the labels still to be looked at.
RECURSIVE first_approach(_, _)
first_approach(labels, observer) ==
  IF labels = <<>> THEN observer
  ELSE LET label == Head(labels)
       IN IF strip(label.text) = <<"Observer:">> /\ label.next_span.found
          THEN strip(label.next_span.text)
          ELSE first_approach(Tail(labels), observer)

\* The observer of a card (lines 153-190).
extract_observer(card) ==
  LET ob == card.observer
      observer1 == first_approach(observer_labels(card), <<"eBird User">>)
      flex_container == find_parent(IconAncestors, ".GridFlex--flex")
      spans == observer_spans(ob)
      observer2 ==
        IF observer1 = <<"eBird User">> /\ ob.icon /\ flex_container.found
           /\ Len(spans) >= 2
        THEN strip(spans[2].text)
        ELSE observer1
      parent_cell == find_parent(IconAncestors, ".GridFlex-cell")
      parent_div == find_parent(above(IconAncestors, ".GridFlex-cell"), "div")
  IN IF observer2 = <<"eBird User">> /\ ob.icon /\ parent_cell.found
        /\ parent_div.found /\ ob.label # "none" /\ ob.name.found
     THEN strip(ob.name.text)
     ELSE observer2

\* The observation dictionary made from one card (lines 193-202).
parse_card(card) ==
  LET obs_id == extract_id(card.id)
      sp == extract_species(card.species)
  IN [id |-> obs_id,
      species |-> sp.species,
      scientificName |-> sp.scientificName,
      count |-> extract_count(card.count),
      date |-> extract_date(card.date_link),
      location |-> extract_location(card.loc),
      observer |-> extract_observer(card),
      checklistUrl |-> extract_checklist(card.date_link, obs_id)]

\* The card loop without its try: the first card that raises ends the loop.
RECURSIVE obs_cards_loop_aborts(_)
obs_cards_loop_aborts(cards) ==
  IF cards = <<>> THEN <<>>
  ELSE IF Head(cards).fault THEN <<>>
  ELSE <<parse_card(Head(cards))>> \o obs_cards_loop_aborts(Tail(cards))

\* The loop over the cards of the page (lines 85-207): a card whose
\* extraction raises is logged and skipped.
RECURSIVE obs_cards_loop(_)
obs_cards_loop(cards) ==
  IF cards = <<>> THEN <<>>
  ELSE IF Head(cards).fault THEN obs_cards_loop(Tail(cards))
  ELSE <<parse_card(Head(cards))>> \o obs_cards_loop(Tail(cards))

(***************************************************************************)
(* State                                                                   *)
(***************************************************************************)
VARIABLES
  file,               \* content of DATA_STORAGE_FILE
  previous_alerts,    \* fetcher.previous_alerts (NoFetcher: no fetcher object)
  pc,                 \* where the running program is
  county_ix,          \* position of check_for_alerts in COUNTIES
  new_alerts,         \* alerts of the current county still to be notified
  is_startup_run,     \* argument of the running check_for_alerts
  notify_on_startup,  \* NOTIFY_ON_STARTUP as configured
  log,                \* what the running cycle has logged as its outcome
  test_observations,  \* TestEBirdFetcher.test_observations
  call,               \* the last get_new_alerts call of the harness
  write_failed,       \* a storage write failed in the running cycle
  tracked,            \* one record (feed, id), followed through the run
  hist,               \* what has happened to the tracked record
  document,           \* the response of the alert page: request ok, its cards
  observations,       \* what fetch_alerts returned for document
  site,               \* what fetch_alerts returns for each county of COUNTIES
  interactive,        \* sys.stdout.isatty() as main finds it
  all_new_alerts,     \* what check_interactive returned to main
  notify_choice,      \* the answer main has read at its prompt
  scheduled,          \* main has scheduled check_for_alerts
  preview_error       \* where check_interactive raised: "none", "fetcher", "loop"

vars == <<file, previous_alerts, pc, county_ix, new_alerts, is_startup_run,
          notify_on_startup, log, test_observations, call, write_failed,
          tracked, hist, document, observations, site, interactive,
          all_new_alerts, notify_choice, scheduled, preview_error>>

\* The variables of the page parser.
parse_vars == <<document, observations>>

\* The variables of main.
main_vars == <<site, interactive, all_new_alerts, notify_choice, scheduled,
               preview_error>>

\* main is not running: check_for_alerts or the harness is run on its own.
NoMain ==
  /\ site = [k \in 1..Len(COUNTIES) |-> <<>>]
  /\ interactive = FALSE
  /\ all_new_alerts = <<>>
  /\ notify_choice = "none"
  /\ scheduled = FALSE
  /\ preview_error = "none"

\* No page has been requested.
NoDocument == [ok |-> FALSE, cards |-> <<>>]

\* A get_new_alerts call: its county (feed) and candidate list (all_alerts),
\* what it returned (ret) or that it raised, and whether it wrote the file
\* (saved: "none", "ok", "failed").
\* created: previous_alerts had no entry for the feed when the call began.
\* reloaded: the fetcher was rebuilt between the call before and this call.
\* synced: after the call the file held what previous_alerts held.
\* repeat: the call before this one had the same county and the same candidate
\* list, returned normally and was synced.
NoCall ==
  [valid |-> FALSE, feed |-> COUNTIES[1].alert_id, all_alerts |-> <<>>,
   ret |-> <<>>,
   raised |-> FALSE, saved |-> "none", created |-> FALSE, reloaded |-> FALSE,
   synced |-> FALSE, repeat |-> FALSE]

\* The tracked record. count: cycles that returned it as new (2: two or more);
\* failed: it was returned by a call whose write failed, in the running cycle
\* ("cur") or in the cycle before the running one ("prev"); called: the
\* running cycle has called get_new_alerts on its feed, and then listed: the
\* fetched list held it, returned: the call returned it as new; notified:
\* notify_new_bird has been called for it; suppressed: a cycle whose
\* should_notify was false has returned it as new.
NoHist == [count |-> 0, failed |-> "no", called |-> FALSE, listed |-> FALSE,
           returned |-> FALSE, notified |-> FALSE, suppressed |-> FALSE]

\* Storage files found at the first run of the monitor: none, {} , an
\* unparseable text, the JSON array [], a JSON object with a number as value.
InitFiles ==
  {MissingFile, json_dump(EmptyDict), PartialFile, json_dump(PyList)}
  \cup {json_dump(PyDict([k \in {a} |-> NumEntry])) : a \in FeedIds}

\* The durable file holds what previous_alerts holds, feed by feed.
Synced(p, f) ==
  LET l == _load_previous_alerts(f, TRUE)
  IN /\ WellFormed(p)
     /\ WellFormed(l.v)
     /\ \A a \in FeedIds : Stored(l.v, a) = Stored(p, a)

Init ==
  /\ file \in InitFiles
  /\ previous_alerts = NoFetcher
  /\ pc = "idle"
  /\ county_ix = 0
  /\ new_alerts = <<>>
  /\ is_startup_run = FALSE
  /\ notify_on_startup \in BOOLEAN
  /\ log = "none"
  /\ test_observations = <<>>
  /\ call = NoCall
  /\ write_failed = FALSE
  /\ tracked \in [feed : FeedIds, id : {1}]
  /\ hist = NoHist
  /\ document = NoDocument
  /\ observations = <<>>
  /\ NoMain

(***************************************************************************)
(* The monitor: check_for_alerts cycles under the scheduler of main        *)
(***************************************************************************)
\* should_notify of check_for_alerts (lines 58-61).
should_notify == ~(is_startup_run /\ ~notify_on_startup)

\* The tracked record after a get_new_alerts call on county with result r.
HistAfterCall(r, county, all_alerts) ==
  IF county.alert_id # tracked.feed \/ r.raised THEN hist
  ELSE LET returned == InList(tracked.id, IdsOf(r.new_alerts))
       IN [count |-> IF returned /\ hist.count < 2 THEN hist.count + 1 ELSE hist.count,
           failed |-> IF returned /\ r.saved = "failed" THEN "cur" ELSE hist.failed,
           called |-> TRUE,
           listed |-> InList(tracked.id, IdsOf(all_alerts)),
           returned |-> returned,
           notified |-> hist.notified,
           suppressed |-> hist.suppressed \/ (returned /\ ~should_notify)]

\* The tracked record once the running cycle is over.
HistAfterCycle ==
  [NoHist EXCEPT !.count = hist.count,
                 !.failed = IF hist.failed = "cur" THEN "prev" ELSE "no",
                 !.notified = hist.notified,
                 !.suppressed = hist.suppressed]

\* check_for_alerts is entered: the fetcher is built from the storage file
\* (lines 34-39). An exception of the constructor is caught by line 74.
check_for_alerts(startup, makedirs_ok) ==
  /\ LET l == _load_previous_alerts(file, makedirs_ok)
     IN IF l.raised
        THEN /\ pc' = "done"
             /\ log' = "error"
             /\ previous_alerts' = NoFetcher
             /\ county_ix' = 0
        ELSE /\ pc' = "county"
             /\ log' = "running"
             /\ previous_alerts' = l.v
             /\ county_ix' = 1
  /\ is_startup_run' = startup
  /\ write_failed' = FALSE
  /\ call' = NoCall
  /\ UNCHANGED <<file, new_alerts, notify_on_startup, test_observations, tracked, hist>>
  /\ UNCHANGED parse_vars

\* The scheduler calls check_for_alerts (line 187).
StartCycle(startup, makedirs_ok) ==
  /\ pc = "idle"
  /\ check_for_alerts(startup, makedirs_ok)
  /\ UNCHANGED main_vars

\* One pass of the county loop up to the notifications (lines 42-48): the
\* page of the county is fetched and get_new_alerts runs, its write included.
GetNewAlerts(page, fetch_ok, io) ==
  /\ pc = "county"
  /\ fetch_ok \/ page = <<>>
  /\ county_ix <= Len(COUNTIES)
  /\ \E county \in {COUNTIES[county_ix]}, all_alerts \in {fetch_alerts(page, fetch_ok)} :
     \E r \in {get_new_alerts(previous_alerts, file, county, all_alerts, io)} :
        /\ io = "ok" \/ r.saved # "none"
        /\ file' = r.file
        /\ previous_alerts' = r.previous_alerts
        /\ write_failed' = (write_failed \/ r.saved = "failed")
        /\ hist' = HistAfterCall(r, county, all_alerts)
        /\ IF r.raised
           THEN /\ pc' = "done"
                /\ log' = "error"
                /\ UNCHANGED <<county_ix, new_alerts>>
           ELSE /\ new_alerts' = r.new_alerts
                /\ log' = log
                /\ IF r.new_alerts = <<>>
                   THEN pc' = "county" /\ county_ix' = county_ix + 1
                   ELSE pc' = "notify" /\ county_ix' = county_ix
  /\ UNCHANGED <<is_startup_run, notify_on_startup, test_observations, call, tracked>>
  /\ UNCHANGED parse_vars
  /\ UNCHANGED main_vars

\* The process after it stopped: nothing but the storage file is left.
ProcessGone ==
  /\ pc' = "idle"
  /\ previous_alerts' = NoFetcher
  /\ county_ix' = 0
  /\ new_alerts' = <<>>
  /\ is_startup_run' = FALSE
  /\ log' = "none"
  /\ call' = NoCall
  /\ write_failed' = FALSE
  /\ hist' = HistAfterCycle
  /\ UNCHANGED <<notify_on_startup, test_observations, tracked>>
  /\ UNCHANGED parse_vars
  /\ UNCHANGED main_vars

\* The process is killed while _save_previous_alerts writes: open(.., 'w') has
\* truncated the file and json.dump has not finished (lines 54-55).
KilledInSave(page) ==
  /\ pc = "county"
  /\ county_ix <= Len(COUNTIES)
  /\ \E r \in {get_new_alerts(previous_alerts, file, COUNTIES[county_ix], page, "ok")} :
       ~r.raised /\ r.new_alerts # <<>>
  /\ file' = PartialFile
  /\ ProcessGone

\* The process is stopped (signal, host restart) between two steps of a cycle.
Interrupt ==
  /\ pc \in {"county", "notify"}
  /\ file' = file
  /\ ProcessGone

\* One pass of the alert loop (lines 52-69): notify_new_bird is called for the
\* alert when should_notify holds, and the alert is only logged otherwise.
Notify ==
  /\ pc = "notify"
  /\ new_alerts # <<>>
  /\ new_alerts' = Tail(new_alerts)
  /\ hist' = IF /\ should_notify
                /\ COUNTIES[county_ix].alert_id = tracked.feed
                /\ Head(new_alerts).id = tracked.id
             THEN [hist EXCEPT !.notified = TRUE]
             ELSE hist
  /\ IF Tail(new_alerts) = <<>>
     THEN pc' = "county" /\ county_ix' = county_ix + 1
     ELSE pc' = "notify" /\ county_ix' = county_ix
  /\ UNCHANGED <<file, previous_alerts, is_startup_run, notify_on_startup, log,
                 test_observations, call, write_failed, tracked>>
  /\ UNCHANGED parse_vars
  /\ UNCHANGED main_vars

\* The county loop is over: "Alert check completed" (line 73).
EndCycle ==
  /\ pc = "county"
  /\ county_ix > Len(COUNTIES)
  /\ pc' = "done"
  /\ log' = "completed"
  /\ UNCHANGED <<file, previous_alerts, county_ix, new_alerts, is_startup_run,
                 notify_on_startup, test_observations, call, write_failed,
                 tracked, hist>>
  /\ UNCHANGED parse_vars
  /\ UNCHANGED main_vars

\* check_for_alerts returns to the scheduler loop of main (lines 186-188);
\* the fetcher of the cycle is dropped.
Return ==
  /\ pc = "done"
  /\ file' = file
  /\ ProcessGone

Next ==
  \/ \E startup \in BOOLEAN, makedirs_ok \in BOOLEAN : StartCycle(startup, makedirs_ok)
  \/ \E page \in Pages, fetch_ok \in BOOLEAN, io \in SaveOutcomes :
       GetNewAlerts(page, fetch_ok, io)
  \/ \E page \in Pages : KilledInSave(page)
  \/ Interrupt
  \/ Notify
  \/ EndCycle
  \/ Return

Spec == Init /\ [][Next]_vars

(***************************************************************************)
(* The detection harness (src/test_detection.py): a fetcher over a storage *)
(* file, get_new_alerts called on it for one county with chosen candidate  *)
(* lists.                                                                  *)
(***************************************************************************)
\* Storage files a fetcher may be built on: those of InitFiles, and every
\* mapping of feeds to id lists of at most MaxStored ids.
StoredMaps ==
  UNION {[S -> {ListEntry(l) : l \in SeqsUpTo(Ids, MaxStored)}] : S \in SUBSET FeedIds}

TestInitFiles == InitFiles \cup {json_dump(PyDict(m)) : m \in StoredMaps}

InitTest ==
  /\ file \in TestInitFiles
  /\ previous_alerts = NoFetcher
  /\ pc = "none"
  /\ county_ix \in 1..Len(COUNTIES)
  /\ new_alerts = <<>>
  /\ is_startup_run = FALSE
  /\ notify_on_startup = FALSE
  /\ log = "none"
  /\ test_observations = <<>>
  /\ call = NoCall
  /\ write_failed = FALSE
  /\ tracked = [feed |-> COUNTIES[1].alert_id, id |-> 1]
  /\ hist = NoHist
  /\ document = NoDocument
  /\ observations = <<>>
  /\ NoMain

\* TestEBirdFetcher(TEST_STORAGE_FILE, ...): EBirdFetcher.__init__ loads the file.
NewFetcher(makedirs_ok) ==
  /\ LET l == _load_previous_alerts(file, makedirs_ok)
     IN IF l.raised
        THEN previous_alerts' = NoFetcher /\ pc' = "none"
        ELSE previous_alerts' = l.v /\ pc' = "ready"
  /\ UNCHANGED <<file, county_ix, new_alerts, is_startup_run, notify_on_startup,
                 log, test_observations, call, write_failed, tracked, hist>>
  /\ UNCHANGED parse_vars
  /\ UNCHANGED main_vars

\* One phase of the harness: fetcher.test_observations is set and
\* get_new_alerts is called for the county of the run. The harness writes
\* into its own test_data directory, where the write completes.
RunPhase(page) ==
  /\ pc \in {"ready", "returned"}
  /\ test_observations' = page
  /\ \E county \in {COUNTIES[county_ix]} :
     \E r \in {get_new_alerts(previous_alerts, file, county, page, "ok")} :
        /\ file' = r.file
        /\ previous_alerts' = r.previous_alerts
        /\ call' = [valid |-> TRUE, feed |-> county.alert_id, all_alerts |-> page,
                    ret |-> r.new_alerts, raised |-> r.raised, saved |-> r.saved,
                    created |-> /\ previous_alerts.t = "dict"
                                /\ county.alert_id \notin DOMAIN previous_alerts.m,
                    reloaded |-> (pc = "ready"),
                    synced |-> Synced(r.previous_alerts, r.file),
                    repeat |-> /\ call.valid
                               /\ ~call.raised
                               /\ call.synced
                               /\ call.feed = county.alert_id
                               /\ call.all_alerts = page]
  /\ pc' = "returned"
  /\ UNCHANGED <<county_ix, new_alerts, is_startup_run, notify_on_startup, log,
                 write_failed, tracked, hist>>
  /\ UNCHANGED parse_vars
  /\ UNCHANGED main_vars

NextTest ==
  \/ \E makedirs_ok \in BOOLEAN : NewFetcher(makedirs_ok)
  \/ \E page \in Pages : RunPhase(page)

SpecTest == InitTest /\ [][NextTest]_vars

(***************************************************************************)
(* One county pass on a parsed page: get_new_alerts with the fetch_alerts  *)
(* of EBirdFetcher, on the fetcher check_for_alerts has built.             *)
(***************************************************************************)
\* The id attribute of a card: missing, the prefix alone, or prefix and id.
IdAttrs ==
  {[found |-> FALSE, n |-> EmptyId]} \cup {[found |-> TRUE, n |-> n] : n \in {EmptyId} \cup Ids}

\* Children of a count container: the hidden label span, a span with the
\* count, an empty span, and text outside any span.
CountNodes ==
  { [tag |-> "span", hidden |-> TRUE, text |-> <<"Number observed:">>],
    [tag |-> "span", hidden |-> FALSE, text |-> <<"3">>],
    [tag |-> "span", hidden |-> FALSE, text |-> <<>>],
    [tag |-> "text", hidden |-> FALSE, text |-> <<"ws", "3">>] }

CountContainers ==
  {[found |-> FALSE, children |-> <<>>]}
  \cup {[found |-> TRUE, children |-> c] : c \in SeqsUpTo(CountNodes, MaxChildren)}

\* The link to the map: missing, with blank text, with the name of the place.
LocLinks ==
  { [found |-> FALSE, text |-> <<>>],
    [found |-> TRUE, text |-> <<"ws">>],
    [found |-> TRUE, text |-> <<"Buena", "ws", "Vista">>] }

\* The link to the checklist: missing, or with the date as text.
DateLinks ==
  { [found |-> FALSE, text |-> <<>>, href |-> ""],
    [found |-> TRUE, text |-> <<"Nov", "ws", "5">>, href |-> "S1"] }

\* The species heading: missing, without main heading, complete.
SpeciesElems ==
  { [found |-> FALSE, main |-> [found |-> FALSE, text |-> <<>>],
     sub |-> [found |-> FALSE, text |-> <<>>]],
    [found |-> TRUE, main |-> [found |-> FALSE, text |-> <<>>],
     sub |-> [found |-> TRUE, text |-> <<"Calidris">>]],
    [found |-> TRUE, main |-> [found |-> TRUE, text |-> <<"Ruff">>],
     sub |-> [found |-> TRUE, text |-> <<"Calidris">>]] }

\* The observer block: its label span (missing, visually hidden, or shown),
\* the span after the label (missing, empty, or a name), and whether the
\* block is the fill cell of a flex container with the user icon.
ObserverBlocks ==
  [label : {"none", "hidden", "visible"},
   name : {[found |-> FALSE, text |-> <<>>], [found |-> TRUE, text |-> <<>>],
           [found |-> TRUE, text |-> <<"Ann">>]},
   icon : BOOLEAN]

\* fault: the extraction of the card raises an exception.
Cards ==
  [fault : BOOLEAN, id : IdAttrs, species : SpeciesElems, count : CountContainers,
   date_link : DateLinks, loc : LocLinks, observer : ObserverBlocks]

\* A card as the alert page has them, with id attribute i.
PageCard(i, fault) ==
  [fault |-> fault,
   id |-> i,
   species |-> [found |-> TRUE, main |-> [found |-> TRUE, text |-> <<"Ruff">>],
                sub |-> [found |-> TRUE, text |-> <<"Calidris">>]],
   count |-> [found |-> TRUE,
              children |-> << [tag |-> "span", hidden |-> TRUE,
                               text |-> <<"Number observed:">>],
                              [tag |-> "span", hidden |-> FALSE, text |-> <<"3">>] >>],
   date_link |-> [found |-> TRUE, text |-> <<"Nov", "ws", "5">>, href |-> "S1"],
   loc |-> [found |-> TRUE, text |-> <<"Buena", "ws", "Vista">>],
   observer |-> [label |-> "hidden", name |-> [found |-> TRUE, text |-> <<"Ann">>],
                 icon |-> TRUE]]

PageCards == {PageCard(i, fault) : i \in IdAttrs, fault \in BOOLEAN}

\* Pages of up to MaxCards cards as the alert page has them.
CardLists == SeqsUpTo(PageCards, MaxCards)

\* The response holds the cards of list d.
Page(d) == [ok |-> TRUE, cards |-> d]

\* Storage files of a county pass: {} and one id recorded for the county.
ParseInitFiles ==
  {json_dump(EmptyDict),
   json_dump(PyDict([k \in {COUNTIES[1].alert_id} |-> ListEntry(<<1>>)]))}

\* The fetcher is built; the response of the alert page is a failed request,
\* a page of one card of any shape, or a list of cards as the page has them.
InitParse ==
  /\ file \in ParseInitFiles
  /\ previous_alerts = _load_previous_alerts(file, TRUE).v
  /\ pc = "county"
  /\ county_ix = 1
  /\ new_alerts = <<>>
  /\ is_startup_run = FALSE
  /\ notify_on_startup = FALSE
  /\ log = "running"
  /\ test_observations = <<>>
  /\ call = NoCall
  /\ write_failed = FALSE
  /\ tracked = [feed |-> COUNTIES[1].alert_id, id |-> 1]
  /\ hist = NoHist
  /\ \/ document = NoDocument
     \/ \E c \in Cards : document = Page(<<c>>)
     \/ \E d \in CardLists : document = Page(d)
  /\ observations = <<>>
  /\ NoMain

\* get_new_alerts for the county (lines 225-243): fetch_alerts requests and
\* parses the page, then the records are filtered and the file is written.
FetchAndFilter ==
  /\ pc = "county"
  /\ \E county \in {COUNTIES[county_ix]} :
     \E all_alerts \in {fetch_alerts(obs_cards_loop(document.cards), document.ok)} :
     \E r \in {get_new_alerts(previous_alerts, file, county, all_alerts, "ok")} :
        /\ observations' = all_alerts
        /\ new_alerts' = r.new_alerts
        /\ previous_alerts' = r.previous_alerts
        /\ file' = r.file
  /\ pc' = "fetched"
  /\ UNCHANGED <<county_ix, is_startup_run, notify_on_startup, log, test_observations,
                 call, write_failed, tracked, hist, document>>
  /\ UNCHANGED main_vars

NextParse == FetchAndFilter

SpecParse == InitParse /\ [][NextParse]_vars

(***************************************************************************)
(* main: the interactive preview, the prompt, the first check and the      *)
(* scheduled checks, on pages that stay as they are                        *)
(***************************************************************************)
\* The pairs (county, alert) of the alerts of county whose id is not in seen
\* (lines 110-113): no id is added to seen on the way.
InteractivePairs(county, all_alerts, seen) ==
  LET new == SelectSeq(all_alerts, LAMBDA alert : ~InList(alert.id, seen))
  IN [j \in 1..Len(new) |-> [county |-> county, alert |-> new[j]]]

\* The county loop of check_interactive (lines 97-118) from county k on, on
\* the copy of previous_alerts, with acc the pairs collected so far. A
\* TypeError ends the loop in the except clause of line 120 with the pairs
\* collected so far.
RECURSIVE InteractiveLoop(_, _, _, _)
InteractiveLoop(copy, pages, k, acc) ==
  IF k > Len(COUNTIES) THEN [raised |-> FALSE, pairs |-> acc]
  ELSE LET county == COUNTIES[k]
           alert_id == county.alert_id
           all_alerts == fetch_alerts(pages[k], TRUE)
       IN IF copy.t # "dict" THEN [raised |-> TRUE, pairs |-> acc]
          ELSE LET m1 == WithEntry(copy.m, alert_id)
               IN IF m1[alert_id].t # "list"
                  THEN IF all_alerts = <<>>
                       THEN InteractiveLoop(PyDict(m1), pages, k + 1, acc)
                       ELSE [raised |-> TRUE, pairs |-> acc]
                  ELSE InteractiveLoop(PyDict(m1), pages, k + 1,
                         acc \o InteractivePairs(county, all_alerts, m1[alert_id].v))

\* A preview that gets the new alerts of each county from get_new_alerts.
RECURSIVE SavingLoop(_, _, _, _, _)
SavingLoop(p, f, pages, k, acc) ==
  IF k > Len(COUNTIES)
  THEN [all_new_alerts |-> acc, previous_alerts |-> p, file |-> f, error |-> "none"]
  ELSE LET r == get_new_alerts(p, f, COUNTIES[k], fetch_alerts(pages[k], TRUE), "ok")
       IN IF r.raised
          THEN [all_new_alerts |-> acc, previous_alerts |-> r.previous_alerts, file |-> f,
                error |-> "loop"]
          ELSE SavingLoop(r.previous_alerts, r.file, pages, k + 1,
                 acc \o [j \in 1..Len(r.new_alerts) |->
                           [county |-> COUNTIES[k], alert |-> r.new_alerts[j]]])

check_interactive_saves(f, pages, makedirs_ok) ==
  LET l == _load_previous_alerts(f, makedirs_ok)
  IN IF l.raised
     THEN [all_new_alerts |-> <<>>, previous_alerts |-> NoFetcher, file |-> f,
           error |-> "fetcher"]
     ELSE SavingLoop(l.v, f, pages, 1, <<>>)

\* check_interactive on storage file f, with pages what fetch_alerts returns
\* for each county: the list it returns, the previous_alerts of its fetcher
\* when it returns (the loop works on a copy, line 94), the file, and where
\* an exception ended it, if one did.
check_interactive(f, pages, makedirs_ok) ==
  LET l == _load_previous_alerts(f, makedirs_ok)
      r == InteractiveLoop(l.v, pages, 1, <<>>)
  IN IF l.raised
     THEN [all_new_alerts |-> <<>>, previous_alerts |-> NoFetcher, file |-> f,
           error |-> "fetcher"]
     ELSE [all_new_alerts |-> r.pairs, previous_alerts |-> l.v, file |-> f,
           error |-> IF r.raised THEN "loop" ELSE "none"]

\* Storage files found by main: those of InitFiles, and a file in which one
\* feed has recorded an id.
MainInitFiles ==
  InitFiles \cup {json_dump(PyDict([k \in {a} |-> ListEntry(<<n>>)])) : a \in FeedIds, n \in {1}}

InitMain ==
  /\ file \in MainInitFiles
  /\ previous_alerts = NoFetcher
  /\ pc = "main"
  /\ county_ix = 0
  /\ new_alerts = <<>>
  /\ is_startup_run = FALSE
  /\ notify_on_startup \in BOOLEAN
  /\ log = "none"
  /\ test_observations = <<>>
  /\ call = NoCall
  /\ write_failed = FALSE
  /\ tracked = [feed |-> COUNTIES[1].alert_id, id |-> 1]
  /\ hist = NoHist
  /\ document = NoDocument
  /\ observations = <<>>
  /\ site \in [1..Len(COUNTIES) -> Pages]
  /\ interactive \in BOOLEAN
  /\ all_new_alerts = <<>>
  /\ notify_choice = "none"
  /\ scheduled = FALSE
  /\ preview_error = "none"

\* main on a terminal calls check_interactive (line 138).
CheckInteractive(makedirs_ok) ==
  /\ pc = "main"
  /\ interactive
  /\ \E r \in {check_interactive(file, site, makedirs_ok)} :
       /\ all_new_alerts' = r.all_new_alerts
       /\ previous_alerts' = r.previous_alerts
       /\ file' = r.file
       /\ preview_error' = r.error
  /\ pc' = "prompt"
  /\ UNCHANGED <<county_ix, new_alerts, is_startup_run, notify_on_startup, log,
                 test_observations, call, write_failed, tracked, hist>>
  /\ UNCHANGED parse_vars
  /\ UNCHANGED <<site, interactive, notify_choice, scheduled>>

\* The operator answers the prompt (lines 158-171): 'y' and 's' call
\* check_for_alerts, 'n' calls nothing.
Answer(choice, makedirs_ok) ==
  /\ pc = "prompt"
  /\ all_new_alerts # <<>>
  /\ notify_choice' = choice
  /\ IF choice = "n"
     THEN /\ pc' = "idle"
          /\ previous_alerts' = NoFetcher
          /\ UNCHANGED <<file, county_ix, new_alerts, is_startup_run, notify_on_startup,
                         log, test_observations, call, write_failed, tracked, hist>>
          /\ UNCHANGED parse_vars
     ELSE check_for_alerts(choice = "s", makedirs_ok)
  /\ UNCHANGED <<site, interactive, all_new_alerts, scheduled, preview_error>>

\* The preview found nothing: check_for_alerts(is_startup_run=True) (line 175).
NoNewAlerts(makedirs_ok) ==
  /\ pc = "prompt"
  /\ all_new_alerts = <<>>
  /\ check_for_alerts(TRUE, makedirs_ok)
  /\ UNCHANGED main_vars

\* main without a terminal: check_for_alerts(is_startup_run=True) (line 178).
NonInteractive(makedirs_ok) ==
  /\ pc = "main"
  /\ ~interactive
  /\ check_for_alerts(TRUE, makedirs_ok)
  /\ UNCHANGED main_vars

\* The county pass of the running check on the page of the county.
CountyPass ==
  /\ pc = "county"
  /\ county_ix <= Len(COUNTIES)
  /\ GetNewAlerts(site[county_ix], TRUE, "ok")

\* schedule.every(CHECK_INTERVAL).minutes.do(check_for_alerts) (line 181).
Schedule ==
  /\ pc = "idle"
  /\ ~scheduled
  /\ scheduled' = TRUE
  /\ UNCHANGED <<file, previous_alerts, pc, county_ix, new_alerts, is_startup_run,
                 notify_on_startup, log, test_observations, call, write_failed,
                 tracked, hist>>
  /\ UNCHANGED parse_vars
  /\ UNCHANGED <<site, interactive, all_new_alerts, notify_choice, preview_error>>

\* schedule.run_pending() runs the job: check_for_alerts() (line 187).
RunPending(makedirs_ok) ==
  /\ scheduled
  /\ StartCycle(FALSE, makedirs_ok)

NextMain ==
  \/ \E makedirs_ok \in BOOLEAN : CheckInteractive(makedirs_ok)
  \/ \E choice \in {"y", "n", "s"}, makedirs_ok \in BOOLEAN : Answer(choice, makedirs_ok)
  \/ \E makedirs_ok \in BOOLEAN : NoNewAlerts(makedirs_ok)
  \/ \E makedirs_ok \in BOOLEAN : NonInteractive(makedirs_ok)
  \/ CountyPass
  \/ Notify
  \/ EndCycle
  \/ Return
  \/ Schedule
  \/ \E makedirs_ok \in BOOLEAN : RunPending(makedirs_ok)

SpecMain == InitMain /\ [][NextMain]_vars

(***************************************************************************)
(* Properties of get_new_alerts (checked under SpecTest)                   *)
(***************************************************************************)
\* The candidate at position j is new: its id is neither in the former list nor
\* the id of a candidate before it.
IsNewAt(former, all, j) ==
  /\ ~InList(all[j].id, former)
  /\ \A i \in 1..(j - 1) : all[i].id # all[j].id

\* The new candidates among all[j..], in input order.
RECURSIVE PickNew(_, _, _)
PickNew(former, all, j) ==
  IF j > Len(all) THEN <<>>
  ELSE (IF IsNewAt(former, all, j) THEN <<all[j]>> ELSE <<>>) \o PickNew(former, all, j + 1)

\* C1: a get_new_alerts call on a mapping of feeds to id lists returns, in input
\* order, the candidates whose id was not in the feed's list when they were
\* examined (not in the former list and not the id of an earlier candidate), and
\* afterwards the feed's list is the former list followed by the returned ids.
C1_ReturnsUnseenInOrder ==
  [][(pc' = "returned" /\ WellFormed(previous_alerts))
       => LET former == Stored(previous_alerts, call'.feed)
          IN /\ ~call'.raised
             /\ call'.ret = PickNew(former, call'.all_alerts, 1)
             /\ WellFormed(previous_alerts')
             /\ call'.feed \in DOMAIN previous_alerts'.m
             /\ previous_alerts'.m[call'.feed].v = former \o IdsOf(call'.ret)]_vars

\* A call that returned some candidates and skipped others, on a feed that had
\* ids recorded before.
C1_Witness ==
  /\ pc = "returned"
  /\ ~call.raised
  /\ call.ret # <<>>
  /\ Len(call.ret) < Len(call.all_alerts)
  /\ Len(Stored(previous_alerts, call.feed)) > Len(call.ret)

\* C3: when get_new_alerts is called again for the same feed with the same
\* candidate list, the first call having returned and its result being in the
\* file, the second call returns the empty list, leaves the file as it is and
\* leaves every feed's recorded ids as they are (previous_alerts itself, when
\* the fetcher is the same object).
C3_SecondCallEmpty ==
  [][(pc' = "returned" /\ call'.repeat)
       => /\ ~call'.raised
          /\ call'.ret = <<>>
          /\ file' = file
          /\ \A a \in FeedIds : Stored(previous_alerts', a) = Stored(previous_alerts, a)
          /\ (~call'.reloaded => previous_alerts' = previous_alerts)]_vars

\* A second call with the same two candidates.
C3_Witness ==
  /\ pc = "returned"
  /\ call.repeat
  /\ Len(call.all_alerts) >= 2

\* C4 as stated: on a feed without entry the call returns every candidate, and
\* the entry then holds the id of every candidate.
C4_ReturnsEveryCandidate ==
  [][(pc' = "returned" /\ call'.created)
       => /\ ~call'.raised
          /\ call'.ret = call'.all_alerts
          /\ call'.feed \in DOMAIN previous_alerts'.m
          /\ \A j \in 1..Len(call'.all_alerts) :
               InList(call'.all_alerts[j].id, Stored(previous_alerts', call'.feed))]_vars

\* C4, amended: on a feed without entry the call creates the entry and returns,
\* in input order, the first candidate of each id (every candidate when no id
\* repeats); the entry is then the list of the returned ids and holds the id of
\* every candidate.
C4_ReturnsFirstOfEachId ==
  [][(pc' = "returned" /\ call'.created)
       => /\ ~call'.raised
          /\ call'.ret = PickNew(<<>>, call'.all_alerts, 1)
          /\ (\A j \in 1..Len(call'.all_alerts) :
                (\A i \in 1..(j - 1) : call'.all_alerts[i].id # call'.all_alerts[j].id)
                  => InList(call'.all_alerts[j], call'.ret))
          /\ call'.feed \in DOMAIN previous_alerts'.m
          /\ previous_alerts'.m[call'.feed] = ListEntry(IdsOf(call'.ret))
          /\ \A j \in 1..Len(call'.all_alerts) :
               InList(call'.all_alerts[j].id, Stored(previous_alerts', call'.feed))]_vars

\* A call that created the entry of its feed from a list that repeats an id.
C4_Witness ==
  /\ pc = "returned"
  /\ call.created
  /\ call.ret # <<>>
  /\ Len(call.ret) < Len(call.all_alerts)

(***************************************************************************)
(* Properties of the store across check cycles (checked under Spec)        *)
(***************************************************************************)
\* Id n is recorded for feed a in the storage file f: a fetcher built on f
\* holds it.
DurablyRecorded(f, a, n) == InList(n, Stored(_load_previous_alerts(f, TRUE).v, a))

\* C2: a record listed on its feed's page is returned as new by exactly one
\* cycle, the first whose fetched list holds it: no record is returned by two
\* cycles, and once a cycle's call has listed it, some cycle has returned it.
C2_ReturnedExactlyOnce ==
  /\ hist.count <= 1
  /\ (hist.called /\ hist.listed) => hist.count >= 1

\* C5: the seen set never shrinks. Stated of the durable file, where the claim
\* leaves no room: an id recorded for a feed in the file is recorded for that
\* feed in the file after every step.
C5_NeverShrinks ==
  [][\A a \in FeedIds, n \in Ids :
       DurablyRecorded(file, a, n) => DurablyRecorded(file', a, n)]_vars

\* C6: every step leaves in the file either the content it had or the complete
\* text of the new previous_alerts; no reader finds a text cut short.
C6_AtomicPersist ==
  [][file' = file \/ file' = json_dump(previous_alerts')]_vars

\* C7: a failed storage write is a failure of the cycle: as soon as a write has
\* failed, the cycle is over with its error logged, and is never "completed".
C7_WriteFailurePropagates ==
  write_failed => (pc = "done" /\ log = "error")

\* C8: a record returned by a call whose write failed, and listed again in the
\* next cycle, is returned as new by the next cycle.
C8_FailedWriteNotCommitted ==
  (hist.failed = "prev" /\ hist.called /\ hist.listed) => hist.returned

\* C9: when a cycle is interrupted while new records wait for their
\* notification, none of them is in the storage file, so that the next cycle
\* returns them again.
C9_InterruptedNotDurable ==
  [][(pc = "notify" /\ pc' = "idle")
       => \A j \in 1..Len(new_alerts) :
            ~InList(new_alerts[j].id,
                    Stored(_load_previous_alerts(file', TRUE).v,
                           COUNTIES[county_ix].alert_id))]_vars

\* C10: loading raises nothing and gives a mapping of feed ids to id lists, and
\* the get_new_alerts calls that follow complete: the fetcher of a running
\* cycle holds such a mapping and no cycle ends in an error.
C10_LoadAlwaysUsable ==
  /\ log # "error"
  /\ pc \in {"county", "notify"} => WellFormed(previous_alerts)

DurableEntry(f, a) ==
  LET l == _load_previous_alerts(f, TRUE).v
  IN IF l.t = "dict" /\ a \in DOMAIN l.m THEN <<l.m[a]>> ELSE <<>>

\* C12: while the county loop works on one feed, the entry the file holds for
\* any other feed stays in the file with the same list of ids.
C12_OtherEntriesPreserved ==
  [][\A a \in FeedIds :
       (/\ pc = "county"
        /\ county_ix <= Len(COUNTIES)
        /\ COUNTIES[county_ix].alert_id # a
        /\ DurableEntry(file, a) # <<>>
        /\ DurableEntry(file, a)[1].t = "list")
         => DurableEntry(file', a) = DurableEntry(file, a)]_vars

\* No id occurs twice in list l.
NoDuplicates(l) == \A i, j \in 1..Len(l) : l[i] = l[j] => i = j

\* No feed's list in p holds an id twice.
DuplicateFree(p) == \A a \in FeedIds : NoDuplicates(Stored(p, a))

\* C13: a get_new_alerts call on a store whose lists hold no id twice leaves
\* such a store, in previous_alerts and in the file it writes, whatever the
\* candidate list repeats.
C13_NoDuplicateIds ==
  [][(pc' = "returned" /\ DuplicateFree(previous_alerts))
       => /\ DuplicateFree(previous_alerts')
          /\ file' # file => DuplicateFree(_load_previous_alerts(file', TRUE).v)]_vars

\* A call whose candidate list repeats one id, which it appended to a list
\* that held another id already.
C13_Witness ==
  /\ pc = "returned"
  /\ call.saved = "ok"
  /\ Len(call.all_alerts) >= 2
  /\ \A j \in 1..Len(call.all_alerts) : call.all_alerts[j] = call.all_alerts[1]
  /\ Len(Stored(previous_alerts, call.feed)) >= 2
  /\ InList(call.all_alerts[1].id, Stored(previous_alerts, call.feed))

(***************************************************************************)
(* Properties of the page parser (checked under SpecParse)                 *)
(***************************************************************************)
\* The cards of the page whose extraction does not raise, in document order.
WellFormedCards == SelectSeq(document.cards, LAMBDA c : ~c.fault)

\* C14: fetch_alerts returns, in document order, the record of every card
\* whose extraction does not raise, and nothing else: k such cards and any
\* number of cards that raise give exactly k records.
C14_FaultyCardSkipped ==
  (pc = "fetched" /\ document.ok)
    => /\ Len(observations) = Len(WellFormedCards)
       /\ \A j \in 1..Len(WellFormedCards) :
            observations[j] = parse_card(WellFormedCards[j])

\* A page of three cards whose second card raises: the first and the third
\* are returned.
C14_Witness ==
  /\ pc = "fetched"
  /\ document.ok
  /\ Len(document.cards) = 3
  /\ ~document.cards[1].fault
  /\ document.cards[2].fault
  /\ ~document.cards[3].fault
  /\ document.cards[1].id # document.cards[3].id
  /\ Len(observations) = 2

\* C15: for a page without cards fetch_alerts returns the empty list, the
\* pass returns no new record, the file stays as it is and the ids recorded
\* for every feed stay as they are, in previous_alerts and in the file.
C15_EmptyPageChangesNothing ==
  [][(pc' = "fetched" /\ document.ok /\ document.cards = <<>>)
       => /\ observations' = <<>>
          /\ new_alerts' = <<>>
          /\ file' = file
          /\ \A a \in FeedIds :
               /\ Stored(previous_alerts', a) = Stored(previous_alerts, a)
               /\ DurableEntry(file', a) = DurableEntry(file, a)]_vars

\* A pass over a page without cards, for a county that has an id recorded.
C15_Witness ==
  /\ pc = "fetched"
  /\ document.ok
  /\ document.cards = <<>>
  /\ Stored(previous_alerts, COUNTIES[county_ix].alert_id) # <<>>
  /\ new_alerts = <<>>

\* C16: what fetch_alerts returns for a failed request differs from what it
\* returns for a page without cards.
C16_FailureDistinctFromEmpty ==
  (pc = "fetched" /\ ~document.ok)
    => observations # fetch_alerts(obs_cards_loop(<<>>), TRUE)

\* The cards of the page that give a record without id.
CardsWithoutId ==
  SelectSeq(document.cards, LAMBDA c : ~c.fault /\ extract_id(c.id) = EmptyId)

\* C17: no record has the empty id, and on a store without ids every card
\* that lacks the id attribute is returned as new.
C17_IdNeverEmpty ==
  [][(pc' = "fetched" /\ document.ok)
       => /\ \A j \in 1..Len(observations') : observations'[j].id # EmptyId
          /\ Stored(previous_alerts, COUNTIES[county_ix].alert_id) = <<>>
               => Len(new_alerts') >= Len(CardsWithoutId)]_vars

\* C18: location and observer of every record are texts that are not empty.
C18_LocationObserverNotEmpty ==
  pc = "fetched"
    => \A j \in 1..Len(observations) :
         /\ observations[j].location # <<>>
         /\ observations[j].observer # <<>>

\* The card has no hidden label "Observer:" followed by a span.
NoTier1(card) == ~(card.observer.label = "hidden" /\ card.observer.name.found)

\* The card has the user icon in a flex container whose fill cell holds two
\* spans with text.
HasTier2(card) ==
  /\ card.observer.icon
  /\ card.observer.label # "none"
  /\ card.observer.name.found
  /\ strip(card.observer.name.text) # <<>>

\* C19: for a card with the tier-2 structure and without the tier-1 structure
\* the observer is the text of the second span of the fill cell.
C19_ObserverFromFillCell ==
  (/\ pc = "fetched"
   /\ Len(document.cards) = 1
   /\ Len(observations) = 1
   /\ NoTier1(document.cards[1])
   /\ HasTier2(document.cards[1]))
    => /\ observations[1].observer = strip(observer_spans(document.cards[1].observer)[2].text)
       /\ observations[1].observer # <<"eBird User">>

\* The count as C20 states it: the text of the children that are not hidden,
\* without them the text of the container less its label, "Unknown" when
\* that is empty.
StatedCount(count_container) ==
  IF ~count_container.found THEN <<"Unknown">>
  ELSE LET spans == non_hidden_spans(count_container.children)
           t == IF spans # <<>> THEN strip(join(spans))
                ELSE strip(replace(text_of(count_container.children), "Number observed:"))
       IN IF t = <<>> THEN <<"Unknown">> ELSE t

\* C20: the count of a record is the count as stated, and is never empty.
C20_CountAsStated ==
  (pc = "fetched" /\ Len(document.cards) = 1 /\ Len(observations) = 1)
    => /\ observations[1].count = StatedCount(document.cards[1].count)
       /\ observations[1].count # <<>>

(***************************************************************************)
(* What the filter of get_new_alerts depends on, and what it leaves alone  *)
(***************************************************************************)
\* The records of alerts with nothing but their id.
IdsOnly(alerts) == [j \in 1..Len(alerts) |-> Alert(alerts[j].id)]

\* The county with its display metadata blanked.
Unnamed(county) == [county EXCEPT !.name = "", !.state = ""]

\* C21: a get_new_alerts call on the parsed records of a page, for a county
\* with its name and state, and the call from the same store on the bare ids
\* of those records, for the county without name and state, return records
\* with the same ids in the same order and leave the same previous_alerts and
\* the same file. Two calls whose inputs agree in feed id and record ids agree
\* with the same third call, hence with each other.
C21_DedupByIdsOnly ==
  [][(pc' = "fetched")
       => \E r \in {get_new_alerts(previous_alerts, file, Unnamed(COUNTIES[county_ix]),
                                   IdsOnly(observations'), "ok")} :
            /\ IdsOf(r.new_alerts) = IdsOf(new_alerts')
            /\ r.previous_alerts = previous_alerts'
            /\ r.file = file']_vars

\* A pass that returned a record with fields of its own and took another
\* record of the page as seen.
C21_Witness ==
  /\ pc = "fetched"
  /\ Len(observations) >= 2
  /\ new_alerts # <<>>
  /\ Len(new_alerts) < Len(observations)
  /\ new_alerts[1].species = <<"Ruff">>
  /\ new_alerts[1].observer = <<"Ann">>

\* p holds an entry for feed a, and which: the entry, or nothing.
EntryOf(p, a) == IF p.t = "dict" /\ a \in DOMAIN p.m THEN <<p.m[a]>> ELSE <<>>

C22_StartupSuppressed ==
  [][/\ (pc = "notify" /\ is_startup_run /\ ~notify_on_startup)
          => hist'.notified = hist.notified
     /\ hist.suppressed => hist'.notified = hist.notified]_vars

(***************************************************************************)
(* The preview and the prompt of main                                      *)
(***************************************************************************)
\* C23: check_interactive leaves the file as it was, and the previous_alerts
\* of its fetcher as the constructor loaded it from the file.
C23_PreviewChangesNothing ==
  [][(pc = "main" /\ pc' = "prompt")
       => /\ file' = file
          /\ \E makedirs_ok \in BOOLEAN :
               previous_alerts' = _load_previous_alerts(file, makedirs_ok).v]_vars

\* A preview that found a new alert for a feed its fetcher has no entry of.
C23_Witness ==
  /\ pc = "prompt"
  /\ previous_alerts.t = "dict"
  /\ \E j \in 1..Len(all_new_alerts) :
       all_new_alerts[j].county.alert_id \notin DOMAIN previous_alerts.m

\* The preview returned the tracked record.
Previewed ==
  \E j \in 1..Len(all_new_alerts) :
    /\ all_new_alerts[j].county.alert_id = tracked.feed
    /\ all_new_alerts[j].alert.id = tracked.id

\* C24: after the answer 'n' a previewed alert is never recorded in the file
\* and never notified, the page listing it as before.
C24_SkippedEntirely ==
  (notify_choice = "n" /\ Previewed)
    => /\ ~hist.notified
       /\ ~InList(tracked.id, Stored(_load_previous_alerts(file, TRUE).v, tracked.feed))

\* The pairs of the preview for county k, as a list of alerts.
PreviewOf(k) ==
  LET own == SelectSeq(all_new_alerts, LAMBDA pair : pair.county = COUNTIES[k])
  IN [j \in 1..Len(own) |-> own[j].alert]

\* C26: in the check that main calls after a preview whose fetcher was
\* built, each county pass gets from get_new_alerts the alerts the preview
\* returned for the county, in the same order.
C26_PreviewAgrees ==
  [][(/\ interactive
      /\ ~scheduled
      /\ preview_error # "fetcher"
      /\ pc = "county"
      /\ county_ix <= Len(COUNTIES)
      /\ log' # "error")
       => new_alerts' = PreviewOf(county_ix)]_vars

====
